---- MODULE Spec2Model ----
(***************************************************************************)
(* A model of the print-size mockup / watermark generator                  *)
(* (photo_sizemockup_watermark.py): command-line parsing, the interactive  *)
(* prompts, the size loop of create_images, the two watermark functions    *)
(* and the ribbon tile builder.                                            *)
(*                                                                         *)
(* Strings that the program parses (command-line words, typed lines) are   *)
(* sequences of one-character strings, so that int() is computed and not   *)
(* assumed; a word that is only compared (a flag) is a one-element         *)
(* sequence holding the word.                                              *)
(***************************************************************************)
EXTENDS Integers, Sequences, FiniteSets, TLC

VARIABLES
    pc,               \* position of the program (main / create_images)
    argv,             \* sys.argv
    srcKind,          \* the input file: "missing", "undecodable", or its mode
    glyph,            \* what text measurement does in this environment
    interactive,      \* create_images parameter
    size_options,     \* main's size_options: None or (type, list)
    watermark_config, \* create_images' watermark_config (a dict)
    print_sizes,      \* create_images' print_sizes, in iteration order
    idx,              \* 1-based position of the size loop in print_sizes
    dirs,             \* directories that exist
    files,            \* path -> content of the files written
    heap,             \* object id -> image (mode, size, pixels)
    eng,              \* the locals of the running watermark function
    tile,             \* the locals of create_ribbon_watermark, stepwise
    pr,               \* the locals of the watermark prompt functions
    font,             \* the locals of load_font, stepwise
    pdf,              \* the PDF merger (pdf_joiner.py): its directory and
                      \* the locals of main and generate_output_filename
    prev,             \* the runs of create_images already over, and the
                      \* files the last of them left
    log               \* what the run has rendered / written, in order

envVars == <<argv, srcKind, glyph, prev, font, pdf>>
cfgVars == <<interactive, size_options, watermark_config, print_sizes, pr>>
fsVars == <<dirs, files>>

vars == <<pc, envVars, cfgVars, idx, fsVars, heap, eng, tile, log>>

----------------------------------------------------------------------------
(* Python helpers *)

Max(a, b) == IF a >= b THEN a ELSE b
Min(a, b) == IF a <= b THEN a ELSE b

Digits == {"0", "1", "2", "3", "4", "5", "6", "7", "8", "9"}

DigitVal(c) ==
    CASE c = "0" -> 0 [] c = "1" -> 1 [] c = "2" -> 2 [] c = "3" -> 3
      [] c = "4" -> 4 [] c = "5" -> 5 [] c = "6" -> 6 [] c = "7" -> 7
      [] c = "8" -> 8 [] c = "9" -> 9

\* the whitespace characters int() skips around a number: blank, tab,
\* newline, vertical tab, form feed, carriage return, and the whitespace
\* beyond ASCII (here U+0085 and U+00A0; those above U+00FF cannot be
\* written in a string of this module)
IntWhitespace == {" ", "\t", "\n", "", "\f", "\r", "", " "}

\* the whitespace characters str.strip() removes: those, and the separators
\* U+001C..U+001F
Whitespace == IntWhitespace \cup {"", "", "", ""}

\* leading / trailing characters of the set ws removed
RECURSIVE LSkip(_, _)
LSkip(s, ws) == IF s # <<>> /\ Head(s) \in ws THEN LSkip(Tail(s), ws) ELSE s

RECURSIVE RSkip(_, _)
RSkip(s, ws) ==
    IF s # <<>> /\ s[Len(s)] \in ws THEN RSkip(SubSeq(s, 1, Len(s) - 1), ws) ELSE s

\* str.strip(): leading and trailing whitespace removed
LStrip(s) == LSkip(s, Whitespace)

RStrip(s) == RSkip(s, Whitespace)

Strip(s) == RStrip(LStrip(s))

\* the value of a run of decimal digits (underscores already checked)
RECURSIVE DigitsVal(_, _)
DigitsVal(s, acc) ==
    IF s = <<>> THEN acc
    ELSE IF Head(s) = "_" THEN DigitsVal(Tail(s), acc)
    ELSE DigitsVal(Tail(s), 10 * acc + DigitVal(Head(s)))

\* int(s): whitespace skipped, an optional sign, digits with single
\* underscores between them, at most 4300 digits (the interpreter's default
\* limit); anything else is a ValueError (ok = FALSE)
PyInt(s) ==
    LET t == RSkip(LSkip(s, IntWhitespace), IntWhitespace)
        signed == t # <<>> /\ Head(t) \in {"+", "-"}
        body == IF signed THEN Tail(t) ELSE t
        wellFormed ==
            /\ body # <<>>
            /\ body[1] \in Digits
            /\ body[Len(body)] \in Digits
            /\ \A i \in 1..Len(body) : body[i] \in Digits \cup {"_"}
            /\ \A i \in 1..(Len(body) - 1) : ~(body[i] = "_" /\ body[i + 1] = "_")
            /\ Cardinality({i \in 1..Len(body) : body[i] \in Digits}) <= 4300
        mag == DigitsVal(body, 0)
    IN  IF ~wellFormed THEN [ok |-> FALSE, val |-> 0]
        ELSE [ok |-> TRUE, val |-> IF signed /\ Head(t) = "-" THEN -mag ELSE mag]

\* x in list
In(x, s) == \E i \in 1..Len(s) : s[i] = x

\* list.index(x) + 1, for x in list (TLA+ sequences start at 1)
IndexOf(x, s) == CHOOSE i \in 1..Len(s) : s[i] = x /\ \A j \in 1..(i - 1) : s[j] # x

W(word) == <<word>>

None == [none |-> TRUE]

DefaultText == W("eliteblings.etsy.com")

----------------------------------------------------------------------------
(* The size table *)

all_print_sizes ==
    << [name |-> "5x7",    w |-> 1500, h |-> 2100],
       [name |-> "8x10",   w |-> 2400, h |-> 3000],
       [name |-> "8.5x11", w |-> 2550, h |-> 3300],
       [name |-> "11x14",  w |-> 3300, h |-> 4200],
       [name |-> "12x16",  w |-> 3600, h |-> 4800],
       [name |-> "16x20",  w |-> 4800, h |-> 6000],
       [name |-> "18x24",  w |-> 5400, h |-> 7200],
       [name |-> "20x24",  w |-> 6000, h |-> 7200],
       [name |-> "24x36",  w |-> 7200, h |-> 10800] >>

AllNames == [i \in 1..Len(all_print_sizes) |-> all_print_sizes[i].name]

\* all_print_sizes[size]
SizeOf(name) ==
    LET e == CHOOSE e \in {all_print_sizes[i] : i \in 1..Len(all_print_sizes)} :
                 e.name = name
    IN  <<e.w, e.h>>

PopularSizes == <<"5x7", "8x10", "11x14", "16x20">>
SmallSizes == <<"5x7", "8x10", "8.5x11">>
LargeSizes == <<"16x20", "18x24", "20x24", "24x36">>

----------------------------------------------------------------------------
(* main: command-line parsing *)

\* idx + 1 < len(sys.argv), for idx = sys.argv.index(flag)
HasArgAfter(a, flag) == IndexOf(flag, a) < Len(a)

\* sys.argv[idx + 1]
ArgAfter(a, flag) == a[IndexOf(flag, a) + 1]

\* no clamp
ClampNothing(lo, hi, v) == v

\* max(lo, min(hi, v))
Clamp(lo, hi, v) == Max(lo, Min(hi, v))

\* the "--opacity" / "--ribbons" / "--angle" blocks of main: the default when
\* the flag is absent, last, or not an integer; the clamped integer otherwise
FlagInt(a, flag, lo, hi, default) ==
    IF ~In(flag, a) THEN default
    ELSE IF ~HasArgAfter(a, flag) THEN default
    ELSE IF PyInt(ArgAfter(a, flag)).ok
         THEN Clamp(lo, hi, PyInt(ArgAfter(a, flag)).val)
         ELSE default

FlagText(a) ==
    IF In(W("--text"), a) /\ HasArgAfter(a, W("--text"))
    THEN ArgAfter(a, W("--text"))
    ELSE DefaultText

MainOpacityFlag(a, default) == FlagInt(a, W("--opacity"), 50, 255, default)
MainRibbonsFlag(a) == FlagInt(a, W("--ribbons"), 3, 10, 5)
MainAngleFlag(a) == FlagInt(a, W("--angle"), -45, 45, 0)

\* main's watermark_options
MainWatermarkOptions(a) ==
    IF In(W("--no-watermark"), a) THEN [style |-> "none"]
    ELSE IF In(W("--center"), a) THEN
        [style |-> "center", text |-> FlagText(a),
         opacity |-> MainOpacityFlag(a, 150)]
    ELSE IF In(W("--ribbon"), a) THEN
        [style |-> "ribbon", text |-> FlagText(a),
         opacity |-> MainOpacityFlag(a, 120),
         ribbon_count |-> MainRibbonsFlag(a),
         angle |-> MainAngleFlag(a)]
    ELSE [style |-> "none"]

SizeOpt(type, sizes) == [type |-> type, sizes |-> sizes]

\* main's size_options before the final default; "single" stands for the call
\* of prompt_single_size that main makes at that point
MainSizeOptions(a) ==
    IF In(W("--all"), a) THEN SizeOpt("all", <<>>)
    ELSE IF In(W("--sizes"), a) /\ HasArgAfter(a, W("--sizes")) THEN
        LET t == ArgAfter(a, W("--sizes"))
        IN  IF t = W("popular") THEN SizeOpt("popular", PopularSizes)
            ELSE IF t = W("small") THEN SizeOpt("small", SmallSizes)
            ELSE IF t = W("large") THEN SizeOpt("large", LargeSizes)
            ELSE IF t = W("single") THEN SizeOpt("single?", <<>>)
            ELSE None
    ELSE None

\* os.path.splitext(os.path.basename(path))[0], on a path given in pieces
\* ("/" and "." are pieces of their own)
RECURSIVE Basename(_)
Basename(p) ==
    IF In("/", p) THEN Basename(SubSeq(p, IndexOf("/", p) + 1, Len(p))) ELSE p

SplitextRoot(b) ==
    LET dots == {i \in 1..Len(b) : b[i] = "." /\ \E j \in 1..(i - 1) : b[j] # "."}
    IN  IF dots = {} THEN b
        ELSE SubSeq(b, 1, (CHOOSE i \in dots : \A k \in dots : k <= i) - 1)

RECURSIVE Join(_)
Join(p) == IF p = <<>> THEN "" ELSE Head(p) \o Join(Tail(p))

BaseName(path) == Join(SplitextRoot(Basename(path)))

----------------------------------------------------------------------------
(* The interactive prompts.  A typed line is a sequence of characters; the  *)
(* line of prompt_custom_selection is given already split: a sequence of    *)
(* comma-separated parts, each a sequence of "-"-separated pieces.          *)

KeyboardInterrupt == W("<KeyboardInterrupt>")

NoSelection == SizeOpt("None", <<>>)

\* one pass of the loop of prompt_size_selection, for the menu choices that
\* return at once; "retry" is the else branch, "custom" and "single" the calls
SizeMenu(line) ==
    LET choice == Strip(line)
    IN  IF choice = W("1") THEN [next |-> "return", sel |-> SizeOpt("all", <<>>)]
        ELSE IF choice = W("2")
             THEN [next |-> "return", sel |-> SizeOpt("popular", PopularSizes)]
        ELSE IF choice = W("3")
             THEN [next |-> "return", sel |-> SizeOpt("small", SmallSizes)]
        ELSE IF choice = W("4")
             THEN [next |-> "return", sel |-> SizeOpt("large", LargeSizes)]
        ELSE IF choice = W("5") THEN [next |-> "custom", sel |-> NoSelection]
        ELSE IF choice = W("6") THEN [next |-> "single", sel |-> NoSelection]
        ELSE [next |-> "retry", sel |-> NoSelection]

AppendNew(acc, name) == IF In(name, acc) THEN acc ELSE Append(acc, name)

\* for i in range(start_idx, end_idx + 1): append all_sizes[i] if new
RECURSIVE AppendRange(_, _, _)
AppendRange(acc, lo, hi) ==
    IF lo > hi THEN acc ELSE AppendRange(AppendNew(acc, AllNames[lo]), lo + 1, hi)

\* str.split(sep) with a separator: the pieces between the separators, empty
\* pieces kept
RECURSIVE Split(_, _)
Split(s, sep) ==
    IF \A i \in 1..Len(s) : s[i] # sep THEN <<s>>
    ELSE LET i == CHOOSE k \in 1..Len(s) :
                      s[k] = sep /\ \A j \in 1..(k - 1) : s[j] # sep
         IN  <<SubSeq(s, 1, i - 1)>> \o Split(SubSeq(s, i + 1, Len(s)), sep)

\* the for loop of prompt_custom_selection over the parts of the line; each
\* part is stripped, a part with a '-' is a range whose split must give two
\* pieces; ok = FALSE when a part raises ValueError or is out of range (break)
RECURSIVE CustomParts(_, _)
CustomParts(parts, acc) ==
    IF parts = <<>> THEN [ok |-> TRUE, sizes |-> acc]
    ELSE LET part == Strip(Head(parts))
             pieces == Split(part, "-")
         IN  IF Len(pieces) >= 2 THEN
                 IF Len(pieces) # 2 \/ ~PyInt(pieces[1]).ok \/ ~PyInt(pieces[2]).ok
                 THEN [ok |-> FALSE, sizes |-> <<>>]
                 ELSE LET lo == PyInt(pieces[1]).val
                          hi == PyInt(pieces[2]).val
                      IN  IF lo \in 1..Len(AllNames) /\ hi \in 1..Len(AllNames)
                          THEN CustomParts(Tail(parts), AppendRange(acc, lo, hi))
                          ELSE [ok |-> FALSE, sizes |-> <<>>]
             ELSE IF ~PyInt(part).ok THEN [ok |-> FALSE, sizes |-> <<>>]
             ELSE IF PyInt(part).val \in 1..Len(AllNames)
                  THEN CustomParts(Tail(parts),
                                   AppendNew(acc, AllNames[PyInt(part).val]))
                  ELSE [ok |-> FALSE, sizes |-> <<>>]

\* one pass of the loop of prompt_custom_selection: the typed line is
\* stripped, an empty one is asked again, the rest is split at the commas
CustomSelection(line) ==
    LET selection == Strip(line)
        r == IF selection = <<>> THEN [ok |-> FALSE, sizes |-> <<>>]
             ELSE CustomParts(Split(selection, ","), <<>>)
    IN  IF r.ok /\ r.sizes # <<>>
        THEN [next |-> "return", sel |-> SizeOpt("custom", r.sizes)]
        ELSE [next |-> "retry", sel |-> NoSelection]

\* one pass of the loop of prompt_single_size
SingleSize(line) ==
    LET n == PyInt(Strip(line))
    IN  IF n.ok /\ n.val \in 1..Len(AllNames)
        THEN [next |-> "return", sel |-> SizeOpt("single", <<AllNames[n.val]>>)]
        ELSE [next |-> "retry", sel |-> NoSelection]

\* one pass of an "Opacity" / "Number of ribbons" / "Ribbon angle" loop
PromptInt(line, lo, hi, default) ==
    LET t == Strip(line)
    IN  IF t = <<>> THEN [done |-> TRUE, val |-> default]
        ELSE IF PyInt(t).ok /\ lo <= PyInt(t).val /\ PyInt(t).val <= hi
             THEN [done |-> TRUE, val |-> PyInt(t).val]
        ELSE [done |-> FALSE, val |-> default]

PromptOpacity(line, default) == PromptInt(line, 50, 255, default)
PromptRibbons(line) == PromptInt(line, 3, 10, 5)
PromptAngle(line) == PromptInt(line, -45, 45, 0)

PromptText(line) == IF Strip(line) = <<>> THEN DefaultText ELSE Strip(line)

\* the keys of {size: all_print_sizes[size] for size in selected_sizes if
\* size in all_print_sizes}, in order: a dict holds a key once, at the place
\* of its first insertion
RECURSIVE KeysInOrder(_, _)
KeysInOrder(selected_sizes, acc) ==
    IF selected_sizes = <<>> THEN acc
    ELSE KeysInOrder(Tail(selected_sizes),
                     IF In(Head(selected_sizes), AllNames)
                     THEN AppendNew(acc, Head(selected_sizes)) ELSE acc)

\* print_sizes of create_images in interactive mode, as the keys in order
SelectSizes(sel) ==
    IF sel.type = "all" THEN AllNames
    ELSE KeysInOrder(sel.sizes, <<>>)

----------------------------------------------------------------------------
(* Geometry *)

\* int(image.width * 0.05), int(image.width * 0.025), int(image_width * 1.5)
CenterFontSize(w) == Max(30, w \div 20)
RibbonFontSize(w) == Max(20, w \div 40)
RibbonWidth(image_width) == (3 * image_width) \div 2

\* an advance of the text width alone
TextSpacingNoGap(text_width) == text_width

TextSpacing(text_width) == text_width + 60
RibbonHeight(text_height) == Max(80, text_height + 40)

\* the rotation matrix of Image.rotate: round(cos(a), 15) and
\* |round(sin(a), 15)| for a = -radians(angle % 360), angle = -45..45
\* (index = angle + 46), each as three groups of five decimal digits
Cos15 ==
    << <<70710, 67811, 86547>>, <<71933, 98003, 38651>>, <<73135, 37016, 19171>>,
       <<74314, 48254, 77394>>, <<75470, 95802, 22772>>, <<76604, 44431, 18978>>,
       <<77714, 59614, 56971>>, <<78801, 7536, 6722>>, <<79863, 55100, 47293>>,
       <<80901, 69943, 74947>>, <<81915, 20442, 88992>>, <<82903, 75725, 55042>>,
       <<83867, 5679, 45424>>, <<84804, 80961, 56426>>, <<85716, 73007, 2112>>,
       <<86602, 54037, 84438>>, <<87461, 97071, 39396>>, <<88294, 75928, 58927>>,
       <<89100, 65241, 88368>>, <<89879, 40462, 99167>>, <<90630, 77870, 36650>>,
       <<91354, 54576, 42601>>, <<92050, 48534, 52440>>, <<92718, 38545, 66787>>,
       <<93358, 4264, 97202>>, <<93969, 26207, 85908>>, <<94551, 85755, 99317>>,
       <<95105, 65162, 95154>>, <<95630, 47559, 63035>>, <<96126, 16959, 38319>>,
       <<96592, 58262, 89068>>, <<97029, 57262, 75996>>, <<97437, 647, 85235>>,
       <<97814, 76007, 33806>>, <<98162, 71834, 47664>>, <<98480, 77530, 12208>>,
       <<98768, 83405, 95138>>, <<99026, 80687, 41570>>, <<99254, 61516, 41322>>,
       <<99452, 18953, 68273>>, <<99619, 46980, 91746>>, <<99756, 40502, 59824>>,
       <<99862, 95347, 54574>>, <<99939, 8270, 19096>>, <<99984, 76951, 56391>>,
       <<100000, 0, 0>>, <<99984, 76951, 56391>>, <<99939, 8270, 19096>>,
       <<99862, 95347, 54574>>, <<99756, 40502, 59824>>, <<99619, 46980, 91746>>,
       <<99452, 18953, 68273>>, <<99254, 61516, 41322>>, <<99026, 80687, 41570>>,
       <<98768, 83405, 95138>>, <<98480, 77530, 12208>>, <<98162, 71834, 47664>>,
       <<97814, 76007, 33806>>, <<97437, 647, 85235>>, <<97029, 57262, 75996>>,
       <<96592, 58262, 89068>>, <<96126, 16959, 38319>>, <<95630, 47559, 63035>>,
       <<95105, 65162, 95154>>, <<94551, 85755, 99317>>, <<93969, 26207, 85908>>,
       <<93358, 4264, 97202>>, <<92718, 38545, 66787>>, <<92050, 48534, 52440>>,
       <<91354, 54576, 42601>>, <<90630, 77870, 36650>>, <<89879, 40462, 99167>>,
       <<89100, 65241, 88368>>, <<88294, 75928, 58927>>, <<87461, 97071, 39396>>,
       <<86602, 54037, 84439>>, <<85716, 73007, 2112>>, <<84804, 80961, 56426>>,
       <<83867, 5679, 45424>>, <<82903, 75725, 55042>>, <<81915, 20442, 88992>>,
       <<80901, 69943, 74947>>, <<79863, 55100, 47293>>, <<78801, 7536, 6722>>,
       <<77714, 59614, 56971>>, <<76604, 44431, 18978>>, <<75470, 95802, 22772>>,
       <<74314, 48254, 77394>>, <<73135, 37016, 19170>>, <<71933, 98003, 38651>>,
       <<70710, 67811, 86548>> >>

Sin15 ==
    << <<70710, 67811, 86548>>, <<69465, 83704, 58998>>, <<68199, 83600, 62498>>,
       <<66913, 6063, 58858>>, <<65605, 90289, 90507>>, <<64278, 76096, 86540>>,
       <<62932, 3910, 49838>>, <<61566, 14753, 25658>>, <<60181, 50231, 52048>>,
       <<58778, 52522, 92473>>, <<57357, 64363, 51046>>, <<55919, 29034, 70747>>,
       <<54463, 90350, 15027>>, <<52991, 92642, 33205>>, <<51503, 80749, 10054>>,
       <<50000, 0, 0>>, <<48480, 96202, 46337>>, <<46947, 15627, 85891>>,
       <<45399, 4997, 39547>>, <<43837, 11467, 89078>>, <<42261, 82617, 40699>>,
       <<40673, 66430, 75800>>, <<39073, 11284, 89274>>, <<37460, 65934, 15912>>,
       <<35836, 79495, 45301>>, <<34202, 1433, 25669>>, <<32556, 81544, 57157>>,
       <<30901, 69943, 74948>>, <<29237, 17047, 22737>>, <<27563, 73558, 16999>>,
       <<25881, 90451, 2521>>, <<24192, 18955, 99668>>, <<22495, 10543, 43865>>,
       <<20791, 16908, 17760>>, <<19080, 89953, 76545>>, <<17364, 81776, 66930>>,
       <<15643, 44650, 40231>>, <<13917, 31009, 60066>>, <<12186, 93434, 5147>>,
       <<10452, 84632, 67653>>, <<8715, 57427, 47658>>, <<6975, 64737, 44126>>,
       <<5233, 59562, 42944>>, <<3489, 94967, 2501>>, <<1745, 24064, 37284>>,
       <<0, 0, 0>>, <<1745, 24064, 37284>>, <<3489, 94967, 2501>>,
       <<5233, 59562, 42944>>, <<6975, 64737, 44125>>, <<8715, 57427, 47658>>,
       <<10452, 84632, 67653>>, <<12186, 93434, 5147>>, <<13917, 31009, 60065>>,
       <<15643, 44650, 40231>>, <<17364, 81776, 66930>>, <<19080, 89953, 76545>>,
       <<20791, 16908, 17759>>, <<22495, 10543, 43865>>, <<24192, 18955, 99668>>,
       <<25881, 90451, 2521>>, <<27563, 73558, 16999>>, <<29237, 17047, 22737>>,
       <<30901, 69943, 74947>>, <<32556, 81544, 57157>>, <<34202, 1433, 25669>>,
       <<35836, 79495, 45300>>, <<37460, 65934, 15912>>, <<39073, 11284, 89274>>,
       <<40673, 66430, 75800>>, <<42261, 82617, 40699>>, <<43837, 11467, 89077>>,
       <<45399, 4997, 39547>>, <<46947, 15627, 85891>>, <<48480, 96202, 46337>>,
       <<50000, 0, 0>>, <<51503, 80749, 10054>>, <<52991, 92642, 33205>>,
       <<54463, 90350, 15027>>, <<55919, 29034, 70747>>, <<57357, 64363, 51046>>,
       <<58778, 52522, 92473>>, <<60181, 50231, 52048>>, <<61566, 14753, 25658>>,
       <<62932, 3910, 49837>>, <<64278, 76096, 86539>>, <<65605, 90289, 90507>>,
       <<66913, 6063, 58858>>, <<68199, 83600, 62498>>, <<69465, 83704, 58997>>,
       <<70710, 67811, 86547>> >>

\* side * t for a table value t, as <<whole part, and the fraction in three
\* groups of five decimal digits>>; the groups keep every product within
\* 32 bits
AxisProduct(side, t) ==
    LET p3 == side * t[3]
        s2 == side * t[2] + p3 \div 100000
        s1 == side * t[1] + s2 \div 100000
    IN  <<s1 \div 100000, s1 % 100000, s2 % 100000, p3 % 100000>>

\* Image.rotate(angle, expand=True): the size of the box around the four
\* corners rotated about the centre, ceil(max) - floor(min) on each axis:
\* max = (side + e) / 2 and min = (side - e) / 2 for the extent e = a + b
\* of the rotated rectangle along the axis.
ExpandedExtent(side, a, b) ==
    LET s3 == a[4] + b[4]
        s2 == a[3] + b[3] + s3 \div 100000
        s1 == a[2] + b[2] + s2 \div 100000
        q == a[1] + b[1] + s1 \div 100000
        exact == s3 % 100000 = 0 /\ s2 % 100000 = 0 /\ s1 % 100000 = 0
        hi == IF exact THEN (side + q + 1) \div 2 ELSE ((side + q) \div 2) + 1
        lo == IF exact THEN (side - q) \div 2 ELSE (side - q - 1) \div 2
    IN  hi - lo

RotatedSize(w, h, angle) ==
    LET c == Cos15[angle + 46]
        sn == Sin15[angle + 46]
    IN  <<ExpandedExtent(w, AxisProduct(w, c), AxisProduct(h, sn)),
          ExpandedExtent(h, AxisProduct(w, sn), AxisProduct(h, c))>>

\* the number of passes of "while current_x < ribbon_width"
RECURSIVE TileDraws(_, _, _)
TileDraws(current_x, ribbon_width, text_spacing) ==
    IF current_x < ribbon_width
    THEN 1 + TileDraws(current_x + text_spacing, ribbon_width, text_spacing)
    ELSE 0

\* create_ribbon_watermark, measurement done: the tile it returns
CreateRibbonWatermark(image_width, text_width, text_height, angle, font_size) ==
    LET ribbon_width == RibbonWidth(image_width)
        ribbon_height == RibbonHeight(text_height)
        size == IF angle # 0 THEN RotatedSize(ribbon_width, ribbon_height, angle)
                ELSE <<ribbon_width, ribbon_height>>
    IN  [w |-> size[1], h |-> size[2],
         draws |-> TileDraws(0, ribbon_width, TextSpacing(text_width)),
         y |-> (ribbon_height - text_height) \div 2,
         shadow_offset |-> Max(1, font_size \div 30)]

\* add_ribbon_watermarks: spacing and paste position
\* a spacing over ribbon_count instead of ribbon_count + 1
VerticalSpacingByCount(image_height, ribbon_count) == image_height \div ribbon_count

VerticalSpacing(image_height, ribbon_count) == image_height \div (ribbon_count + 1)
RibbonY(vertical_spacing, i) == vertical_spacing * (i + 1)
PasteX == 0
PasteYRaw(ribbon_y, tile_height) == ribbon_y - tile_height \div 2
\* no clamp
PasteYUnclamped(paste_y, image_height, tile_height) == paste_y

PasteYClamp(paste_y, image_height, tile_height) ==
    Max(0, Min(paste_y, image_height - tile_height))
RibbonRange(ribbon_count) == 0..(ribbon_count - 1)

\* add_center_watermark: position and shadow
CenterX(image_width, text_width) == (image_width - text_width) \div 2
CenterY(image_height, text_height) == (image_height - text_height) \div 2
CenterShadowOffset(font_size) == Max(2, font_size \div 20)

\* text measurement: the tight box of the text at this font size, as this
\* environment's font renders it (extent proportional to the font size; the
\* empty string measures 0 x 0)
TextBBox(g, text, font_size) ==
    IF text = <<>> THEN <<0, 0>>
    ELSE <<(font_size * g.wq) \div 4, (font_size * g.hq) \div 4>>

\* try: textbbox  except: textsize (the extent from the origin, the top
\* offset of the font included)
MeasureText(g, text, font_size) ==
    LET b == TextBBox(g, text, font_size)
    IN  IF g.bbox = "ok" THEN [raises |-> FALSE, w |-> b[1], h |-> b[2]]
        ELSE IF g.textsize = "ok"
             THEN [raises |-> FALSE, w |-> b[1], h |-> b[2] + g.top]
        ELSE [raises |-> TRUE, w |-> 0, h |-> 0]

----------------------------------------------------------------------------
(* Images.  An image is an object on the heap: its mode, its size and pixels *)
(* (the operations that produced them, in order).  Drawing on an image or   *)
(* pasting into it changes the object; convert, resize, rotate and          *)
(* alpha_composite make a new object.                                       *)

Op(name, x, y, w, h, n, str, sub) ==
    [op |-> name, x |-> x, y |-> y, w |-> w, h |-> h, n |-> n, s |-> str, sub |-> sub]

\* the pixels of a ribbon tile: the text drawn t.draws times, shadow first
TilePx(t) == <<Op("tiled_text", 0, t.y, t.w, t.h, t.draws, "ribbon", <<>>)>>

Img(mode, w, h, px) == [mode |-> mode, w |-> w, h |-> h, px |-> px]

NoImage == Img("", 0, 0, <<>>)

EmptyHeap == [o \in {} |-> NoImage]

\* Image.new('RGBA', size, (0, 0, 0, 0))
NewOverlay(w, h) == Img("RGBA", w, h, <<>>)

\* image.convert(mode): a copy in the other mode
Convert(im, mode) == Img(mode, im.w, im.h, Append(im.px, Op("convert", 0, 0, 0, 0, 0, mode, <<>>)))

\* a resize with width and height taken in the wrong order
ResizeTransposed(im, w, h) ==
    Img(im.mode, h, w, Append(im.px, Op("resize", 0, 0, h, w, 0, "LANCZOS", <<>>)))

\* img.resize((width, height), LANCZOS)
Resize(im, w, h) == Img(im.mode, w, h, Append(im.px, Op("resize", 0, 0, w, h, 0, "LANCZOS", <<>>)))

\* draw.text((x, y), text, fill=(.., .., .., alpha)) on the image drawn on
DrawText(im, x, y, colour, alpha) ==
    [im EXCEPT !.px = Append(@, Op("text", x, y, 0, 0, alpha, colour, <<>>))]

\* overlay.paste(ribbon_img, (x, y), ribbon_img)
Paste(im, x, y, t, i) ==
    [im EXCEPT !.px = Append(@, Op("paste", x, y, t.w, t.h, i, "ribbon", TilePx(t)))]

\* Image.alpha_composite(image, overlay): a new image, the overlay over image
AlphaComposite(im, over) ==
    Img("RGBA", im.w, im.h, im.px \o <<Op("alpha_composite", 0, 0, over.w, over.h, 0, "", over.px)>>)

\* the object that "image" names after "if image.mode != 'RGBA': image =
\* image.convert('RGBA')": the argument itself, or the converted copy
WorkingImage(h, input) == IF h[input].mode # "RGBA" THEN "rgba" ELSE input

\* the heap after that statement
AfterConvert(h, input) ==
    IF h[input].mode # "RGBA" THEN ("rgba" :> Convert(h[input], "RGBA")) @@ h ELSE h

----------------------------------------------------------------------------
(* The locals of the running watermark function *)

EngIdle ==
    [pc |-> "idle", style |-> "none", text |-> <<>>, opacity |-> 0,
     ribbon_count |-> 0, angle |-> 0,
     input |-> "", image |-> "", result |-> "",
     font_size |-> 0, tw |-> 0, th |-> 0, x |-> 0, y |-> 0, shadow |-> 0,
     vertical_spacing |-> 0, i |-> 0, raw_y |-> 0, paste_y |-> 0, tile_h |-> 0,
     composites |-> 0, before |-> NoImage]

\* the call of the watermark function create_images makes for this style on
\* the image object "input"
EngCall(cfg, h, input) ==
    IF cfg.style = "center" THEN
        [EngIdle EXCEPT !.pc = "center", !.style = "center", !.text = cfg.text,
                        !.opacity = cfg.opacity, !.input = input,
                        !.before = h[input]]
    ELSE IF cfg.style = "ribbon" THEN
        [EngIdle EXCEPT !.pc = "ribbon", !.style = "ribbon", !.text = cfg.text,
                        !.opacity = cfg.opacity,
                        !.ribbon_count = cfg.ribbon_count, !.angle = cfg.angle,
                        !.input = input, !.before = h[input]]
    ELSE [EngIdle EXCEPT !.pc = "none", !.input = input, !.before = h[input]]

\* "final_image = resized": the no-watermark branch of create_images
NoWatermark ==
    /\ eng.pc = "none"
    /\ eng' = [eng EXCEPT !.pc = "returned", !.result = eng.input]
    /\ UNCHANGED <<pc, envVars, cfgVars, idx, fsVars, heap, tile, log>>

\* add_center_watermark up to the computation of the position
CenterBegin ==
    /\ eng.pc = "center"
    /\ LET h1 == AfterConvert(heap, eng.input)
           image == WorkingImage(heap, eng.input)
           font_size == CenterFontSize(h1[image].w)
           m == MeasureText(glyph, eng.text, font_size)
       IN  /\ heap' = ("overlay" :> NewOverlay(h1[image].w, h1[image].h)) @@ h1
           /\ eng' = IF m.raises THEN [eng EXCEPT !.pc = "raised", !.image = image]
                     ELSE [eng EXCEPT !.pc = "center_shadow", !.image = image,
                                      !.font_size = font_size,
                                      !.tw = m.w, !.th = m.h,
                                      !.x = CenterX(h1[image].w, m.w),
                                      !.y = CenterY(h1[image].h, m.h),
                                      !.shadow = CenterShadowOffset(font_size)]
    /\ UNCHANGED <<pc, envVars, cfgVars, idx, fsVars, tile, log>>

\* draws that go to the image itself
DrawOnImage(e) == e.image

\* the object the draws of the watermark functions go to
DrawTarget(e) == "overlay"

\* the shadow text
CenterShadow ==
    /\ eng.pc = "center_shadow"
    /\ heap' = [heap EXCEPT ![DrawTarget(eng)] =
                   DrawText(@, eng.x + eng.shadow, eng.y + eng.shadow,
                            "black", eng.opacity \div 2)]
    /\ eng' = [eng EXCEPT !.pc = "center_text"]
    /\ UNCHANGED <<pc, envVars, cfgVars, idx, fsVars, tile, log>>

\* the main text
CenterText ==
    /\ eng.pc = "center_text"
    /\ heap' = [heap EXCEPT ![DrawTarget(eng)] =
                   DrawText(@, eng.x, eng.y, "white", eng.opacity)]
    /\ eng' = [eng EXCEPT !.pc = "composite"]
    /\ UNCHANGED <<pc, envVars, cfgVars, idx, fsVars, tile, log>>

\* add_ribbon_watermarks up to the loop
RibbonBegin ==
    /\ eng.pc = "ribbon"
    /\ LET h1 == AfterConvert(heap, eng.input)
           image == WorkingImage(heap, eng.input)
       IN  /\ heap' = ("overlay" :> NewOverlay(h1[image].w, h1[image].h)) @@ h1
           /\ eng' = [eng EXCEPT !.pc = "ribbon_loop", !.image = image,
                                 !.font_size = RibbonFontSize(h1[image].w),
                                 !.vertical_spacing =
                                     VerticalSpacing(h1[image].h, eng.ribbon_count),
                                 !.i = 0]
    /\ UNCHANGED <<pc, envVars, cfgVars, idx, fsVars, tile, log>>

\* one pass of "for i in range(ribbon_count)": build the tile, paste it
RibbonTile ==
    /\ eng.pc = "ribbon_loop"
    /\ eng.i \in RibbonRange(eng.ribbon_count)
    /\ LET im == heap[eng.image]
           m == MeasureText(glyph, eng.text, eng.font_size)
           t == CreateRibbonWatermark(im.w, m.w, m.h, eng.angle, eng.font_size)
           raw == PasteYRaw(RibbonY(eng.vertical_spacing, eng.i), t.h)
           paste_y == PasteYClamp(raw, im.h, t.h)
       IN  IF m.raises
           THEN /\ eng' = [eng EXCEPT !.pc = "raised"]
                /\ heap' = heap
           ELSE /\ heap' = [heap EXCEPT ![DrawTarget(eng)] =
                               Paste(@, PasteX, paste_y, t, eng.i)]
                /\ eng' = [eng EXCEPT !.i = @ + 1, !.tw = m.w, !.th = m.h,
                                      !.raw_y = raw, !.paste_y = paste_y,
                                      !.tile_h = t.h]
    /\ UNCHANGED <<pc, envVars, cfgVars, idx, fsVars, tile, log>>

\* a composite that does not wait for the end of the ribbon loop
CompositeEarly ==
    /\ eng.pc \in {"composite", "ribbon_loop"}
    /\ heap' = ("out" :> Convert(AlphaComposite(heap[eng.image], heap["overlay"]),
                                 "RGB")) @@ heap
    /\ eng' = [eng EXCEPT !.pc = "returned", !.result = "out", !.composites = @ + 1]
    /\ UNCHANGED <<pc, envVars, cfgVars, idx, fsVars, tile, log>>

\* "watermarked = Image.alpha_composite(image, overlay)" and
\* "return watermarked.convert('RGB')", of either function; alpha_composite
\* raises ValueError when the two sizes differ
Composite ==
    /\ \/ eng.pc = "composite"
       \/ eng.pc = "ribbon_loop" /\ eng.i \notin RibbonRange(eng.ribbon_count)
    /\ LET im == heap[eng.image]
           over == heap["overlay"]
       IN  IF <<im.w, im.h>> # <<over.w, over.h>>
           THEN /\ eng' = [eng EXCEPT !.pc = "raised"]
                /\ heap' = heap
           ELSE /\ heap' = ("out" :> Convert(AlphaComposite(im, over), "RGB")) @@ heap
                /\ eng' = [eng EXCEPT !.pc = "returned", !.result = "out",
                                      !.composites = @ + 1]
    /\ UNCHANGED <<pc, envVars, cfgVars, idx, fsVars, tile, log>>

Engine == NoWatermark \/ CenterBegin \/ CenterShadow \/ CenterText
          \/ RibbonBegin \/ RibbonTile \/ Composite

----------------------------------------------------------------------------
(* The environment: command lines, typed lines, fonts *)

Prog == W("robust_generator.py")
InputPath == <<"shots", "/", "print-size", ".", "v2", ".", "png">>

SizeArgs ==
    { <<>>, <<W("--all")>>, <<W("--sizes")>>, <<W("--sizes"), W("popular")>>,
      <<W("--sizes"), W("small")>>, <<W("--sizes"), W("large")>>,
      <<W("--sizes"), W("single")>>, <<W("--sizes"), W("huge")>> }

StyleArgs == { <<>>, <<W("--no-watermark")>>, <<W("--center")>>, <<W("--ribbon")>> }

OpacityWords == { <<"4", "9">>, <<"2", "5", "6">>, <<"2", "0", "0">>, <<"-", "5">>, W("high") }
RibbonWords == { <<"2">>, <<"1", "1">>, <<"7">>, W("--angle") }
AngleWords == { <<"-", "4", "6">>, <<"4", "5">>, <<"-", "1", "5">>, <<"+", "3", "0">>, <<"1", ".", "5">> }

OptArgs ==
    {<<>>, <<W("--opacity")>>, <<W("--text"), <<>>>>, <<W("--text"), W("SAMPLE")>>,
     <<W("--opacity"), <<"9", "9", "9">>, W("--ribbons"), <<"0">>,
       W("--angle"), <<"9", "0">>>>}
    \cup {<<W("--opacity"), t>> : t \in OpacityWords}
    \cup {<<W("--ribbons"), t>> : t \in RibbonWords}
    \cup {<<W("--angle"), t>> : t \in AngleWords}

ArgvSet ==
    {<<Prog>>, <<Prog, InputPath, W("--interactive")>>,
     <<Prog, InputPath, W("--ribbon"), W("--interactive")>>,
     <<Prog, InputPath, W("--no-watermark"), W("--opacity"), <<"9", "0">>>>}
    \cup {<<Prog, InputPath>> \o sz \o st : sz \in SizeArgs, st \in StyleArgs}
    \cup {<<Prog, InputPath>> \o sz \o st \o o :
             sz \in {<<>>, <<W("--sizes"), W("popular")>>},
             st \in {<<W("--center")>>, <<W("--ribbon")>>}, o \in OptArgs}

MenuLines == {W("1"), W("2"), W("3"), W("4"), W("5"), W("6"), <<"\t", "3", " ">>, W("7"), <<>>}
SingleLines == {W("1"), W("9"), <<"1", "0">>, W("0"), W("x")}
CustomLines ==
    { <<" ", "1", ",", " ", "2", "\t">>,              \* " 1, 2<tab>"
      <<"8", "-", "9", ",", "1">>,                    \* "8-9,1"
      <<"3", "-", "1">>,                              \* "3-1"
      <<"2", " ", "-", "3", ",", "", "3">>,       \* "2 -3,<U+001C>3"
      <<"0">>,                                        \* "0"
      <<"1", "-", "2", "-", "3">>,                    \* "1-2-3"
      <<" ">>,                                        \* " "
      <<"-", "1">>,                                   \* "-1"
      <<"6", ",", "x">> }                             \* "6,x"
TextLines == {<<>>, <<" ">>, W("SAMPLE")}
OpacityLines == {<<>>, <<"4", "9">>, <<"2", "5", "5">>, <<"2", "5", "6">>, W("x")}
RibbonLines == {<<>>, <<"2">>, <<"3">>, <<"1", "1">>}
AngleLines == {<<>>, <<"-", "4", "6">>, <<"-", "4", "5">>, <<"2", "0">>, W("flat")}

\* how text measures in this environment: whether textbbox and textsize work,
\* the width and height of the text in quarters of the font size, and the
\* top offset textsize adds
Glyphs ==
    { [bbox |-> "ok", textsize |-> "raises", wq |-> 40, hq |-> 3, top |-> 0],
      [bbox |-> "raises", textsize |-> "ok", wq |-> 24, hq |-> 4, top |-> 3],
      [bbox |-> "raises", textsize |-> "raises", wq |-> 40, hq |-> 3, top |-> 0] }

NoGlyph == [bbox |-> "", textsize |-> "", wq |-> 0, hq |-> 0, top |-> 0]

DecodeKinds == {"undecodable", "truncated", "RGB", "RGBA", "L"}

----------------------------------------------------------------------------
(* Output names *)

OutputFolder(base_name, style) ==
    IF style = "none" THEN base_name \o "_clean_prints"
    ELSE IF style = "center" THEN base_name \o "_center_watermarked"
    ELSE base_name \o "_ribbon_watermarked"

\* a file name that takes no account of the style
FileNameOneSuffix(base_name, size_name, style) ==
    base_name \o "_" \o size_name \o "_300dpi_watermarked.jpg"

FileName(base_name, size_name, style) ==
    IF style = "none" THEN base_name \o "_" \o size_name \o "_300dpi_clean.jpg"
    ELSE base_name \o "_" \o size_name \o "_300dpi_watermarked.jpg"

\* os.path.join(output_folder, filename)
FilePath(folder, filename) == folder \o "/" \o filename

InputFile == argv[2]

NoFiles == [f \in {} |-> NoImage]

PartialFile == Img("partial", 0, 0, <<>>)

PrIdle == [text |-> <<>>, opacity |-> 0, ribbon_count |-> 0]

TileIdle ==
    [pc |-> "idle", image_width |-> 0, text |-> <<>>, angle |-> 0, font_size |-> 0,
     tw |-> 0, th |-> 0, text_spacing |-> 0, ribbon_width |-> 0,
     ribbon_height |-> 0, current_x |-> 0, last_x |-> -1, w |-> 0, h |-> 0]

Unset == [style |-> "unset"]

\* load_font's candidate list, in its order
font_paths ==
    << "/System/Library/Fonts/Helvetica.ttc",
       "/System/Library/Fonts/Arial.ttf",
       "/System/Library/Fonts/AppleSDGothicNeo.ttc",
       "/Library/Fonts/Arial.ttf",
       "/usr/share/fonts/truetype/arial.ttf",
       "C:/Windows/Fonts/arial.ttf" >>

\* what load_font returns: a TrueType font of a file at a size, or the
\* built-in default font
TrueType(font_path, font_size) ==
    [kind |-> "truetype", path |-> font_path, size |-> font_size]
DefaultFont == [kind |-> "default", path |-> "", size |-> 0]
NoFont == [kind |-> "", path |-> "", size |-> 0]

\* what a candidate file is on this machine: "missing" (os.path.exists is
\* False), "unloadable" (it exists, ImageFont.truetype raises), "loadable"
FontFileStates == {"missing", "unloadable", "loadable"}

FontIdle ==
    [pc |-> "idle", on_disk |-> <<>>, font_size |-> 0, i |-> 0, result |-> NoFont]

\* the PDF merger before it is started
PdfIdle ==
    [pc |-> "idle", directory |-> "", dir |-> {}, output_path |-> "",
     counter |-> 0, run |-> 0, merged |-> {}, overwritten |-> {}]

\* no run of create_images is over yet
NoRun == [runs |-> 0, files |-> NoFiles, glyph |-> NoGlyph]

----------------------------------------------------------------------------
(* main *)

\* main up to its first prompt, or up to the entry of create_images
Main ==
    /\ pc = "main"
    /\ IF Len(argv) < 2 THEN
           /\ pc' = "usage"
           /\ UNCHANGED cfgVars
       ELSE IF srcKind = "missing" THEN
           /\ pc' = "notfound"
           /\ UNCHANGED cfgVars
       ELSE IF In(W("--interactive"), argv) THEN
           \* create_images(input_file, interactive=True)
           /\ pc' = "prompt_size"
           /\ interactive' = TRUE
           /\ UNCHANGED <<size_options, watermark_config, print_sizes, pr>>
       ELSE IF MainSizeOptions(argv) = SizeOpt("single?", <<>>) THEN
           /\ pc' = "main_single"
           /\ UNCHANGED cfgVars
       ELSE
           \* create_images(input_file, False, watermark_options, size_options)
           /\ size_options' = IF MainSizeOptions(argv) = None
                              THEN SizeOpt("all", <<>>) ELSE MainSizeOptions(argv)
           /\ watermark_config' = MainWatermarkOptions(argv)
           /\ print_sizes' = AllNames
           /\ pc' = "mkdir"
           /\ UNCHANGED <<interactive, pr>>
    /\ UNCHANGED <<envVars, idx, fsVars, heap, eng, tile, log>>

\* "size_options = prompt_single_size()" in main, one typed line at a time,
\* then the rest of main and the entry of create_images
MainSingle ==
    /\ pc = "main_single"
    /\ \E line \in SingleLines \cup {KeyboardInterrupt} :
          LET r == IF line = KeyboardInterrupt
                   THEN [next |-> "return", sel |-> NoSelection]
                   ELSE SingleSize(line)
          IN  IF r.next = "retry" THEN UNCHANGED <<pc, cfgVars>>
              ELSE /\ size_options' = r.sel
                   /\ watermark_config' = MainWatermarkOptions(argv)
                   /\ print_sizes' = AllNames
                   /\ pc' = "mkdir"
                   /\ UNCHANGED <<interactive, pr>>
    /\ UNCHANGED <<envVars, idx, fsVars, heap, eng, tile, log>>

----------------------------------------------------------------------------
(* create_images, interactive: the prompts *)

\* the selection made: print_sizes, then on to prompt_watermark_options
Selected(sel) ==
    /\ size_options' = sel
    /\ print_sizes' = SelectSizes(sel)
    /\ pc' = "prompt_wm"
    /\ UNCHANGED <<interactive, watermark_config, pr>>

\* a create_images that does not test the prompt's result for None
CancelledGoesOn ==
    /\ pc' = "mkdir"
    /\ UNCHANGED cfgVars

\* the prompt returned None: create_images returns
Cancelled ==
    /\ pc' = "cancelled"
    /\ UNCHANGED cfgVars

PromptSizeSelection ==
    /\ pc = "prompt_size"
    /\ \E line \in MenuLines \cup {KeyboardInterrupt} :
          IF line = KeyboardInterrupt THEN Cancelled
          ELSE LET r == SizeMenu(line)
               IN  IF r.next = "return" THEN Selected(r.sel)
                   ELSE /\ pc' = IF r.next = "custom" THEN "prompt_custom"
                                 ELSE IF r.next = "single" THEN "prompt_single"
                                 ELSE pc
                        /\ UNCHANGED cfgVars
    /\ UNCHANGED <<envVars, idx, fsVars, heap, eng, tile, log>>

PromptCustomSelection ==
    /\ pc = "prompt_custom"
    /\ \E line \in CustomLines, interrupt \in BOOLEAN :
          IF interrupt THEN Cancelled
          ELSE LET r == CustomSelection(line)
               IN  IF r.next = "return" THEN Selected(r.sel)
                   ELSE UNCHANGED <<pc, cfgVars>>
    /\ UNCHANGED <<envVars, idx, fsVars, heap, eng, tile, log>>

PromptSingleSize ==
    /\ pc = "prompt_single"
    /\ \E line \in SingleLines \cup {KeyboardInterrupt} :
          IF line = KeyboardInterrupt THEN Cancelled
          ELSE LET r == SingleSize(line)
               IN  IF r.next = "return" THEN Selected(r.sel)
                   ELSE UNCHANGED <<pc, cfgVars>>
    /\ UNCHANGED <<envVars, idx, fsVars, heap, eng, tile, log>>

\* the watermark prompt returned a dict: on to the output folder
Configured(cfg) ==
    /\ watermark_config' = cfg
    /\ pc' = "mkdir"
    /\ UNCHANGED <<interactive, size_options, print_sizes, pr>>

PromptWatermarkOptions ==
    /\ pc = "prompt_wm"
    /\ \E line \in MenuLines \cup {KeyboardInterrupt} :
          LET choice == Strip(line)
          IN  IF line = KeyboardInterrupt THEN Cancelled
              ELSE IF choice = W("1") THEN Configured([style |-> "none"])
              ELSE /\ pc' = IF choice = W("2") THEN "center_text"
                            ELSE IF choice = W("3") THEN "ribbon_text"
                            ELSE pc
                   /\ UNCHANGED cfgVars
    /\ UNCHANGED <<envVars, idx, fsVars, heap, eng, tile, log>>

\* "Watermark text" of prompt_center_watermark_options and of
\* prompt_ribbon_watermark_options
PromptWatermarkText ==
    /\ pc \in {"center_text", "ribbon_text"}
    /\ \E line \in TextLines \cup {KeyboardInterrupt} :
          IF line = KeyboardInterrupt THEN Cancelled
          ELSE /\ pr' = [pr EXCEPT !.text = PromptText(line)]
               /\ pc' = IF pc = "center_text" THEN "center_opacity" ELSE "ribbon_opacity"
               /\ UNCHANGED <<interactive, size_options, watermark_config, print_sizes>>
    /\ UNCHANGED <<envVars, idx, fsVars, heap, eng, tile, log>>

\* the opacity loop of prompt_center_watermark_options, and its return
PromptCenterOpacity ==
    /\ pc = "center_opacity"
    /\ \E line \in OpacityLines \cup {KeyboardInterrupt} :
          LET r == PromptOpacity(line, 150)
          IN  IF line = KeyboardInterrupt THEN Cancelled
              ELSE IF r.done
                   THEN Configured([style |-> "center", text |-> pr.text,
                                    opacity |-> r.val])
              ELSE UNCHANGED <<pc, cfgVars>>
    /\ UNCHANGED <<envVars, idx, fsVars, heap, eng, tile, log>>

\* the opacity loop of prompt_ribbon_watermark_options
PromptRibbonOpacity ==
    /\ pc = "ribbon_opacity"
    /\ \E line \in OpacityLines \cup {KeyboardInterrupt} :
          LET r == PromptOpacity(line, 120)
          IN  IF line = KeyboardInterrupt THEN Cancelled
              ELSE IF r.done
                   THEN /\ pr' = [pr EXCEPT !.opacity = r.val]
                        /\ pc' = "ribbon_count"
                        /\ UNCHANGED <<interactive, size_options, watermark_config,
                                       print_sizes>>
              ELSE UNCHANGED <<pc, cfgVars>>
    /\ UNCHANGED <<envVars, idx, fsVars, heap, eng, tile, log>>

\* the ribbon count loop
PromptRibbonCount ==
    /\ pc = "ribbon_count"
    /\ \E line \in RibbonLines \cup {KeyboardInterrupt} :
          LET r == PromptRibbons(line)
          IN  IF line = KeyboardInterrupt THEN Cancelled
              ELSE IF r.done
                   THEN /\ pr' = [pr EXCEPT !.ribbon_count = r.val]
                        /\ pc' = "ribbon_angle"
                        /\ UNCHANGED <<interactive, size_options, watermark_config,
                                       print_sizes>>
              ELSE UNCHANGED <<pc, cfgVars>>
    /\ UNCHANGED <<envVars, idx, fsVars, heap, eng, tile, log>>

\* the angle loop, and the return of prompt_ribbon_watermark_options
PromptRibbonAngle ==
    /\ pc = "ribbon_angle"
    /\ \E line \in AngleLines \cup {KeyboardInterrupt} :
          LET r == PromptAngle(line)
          IN  IF line = KeyboardInterrupt THEN Cancelled
              ELSE IF r.done
                   THEN Configured([style |-> "ribbon", text |-> pr.text,
                                    opacity |-> pr.opacity,
                                    ribbon_count |-> pr.ribbon_count,
                                    angle |-> r.val])
              ELSE UNCHANGED <<pc, cfgVars>>
    /\ UNCHANGED <<envVars, idx, fsVars, heap, eng, tile, log>>

----------------------------------------------------------------------------
(* create_images: the output folder, the source image, the size loop *)

BaseOf == BaseName(InputFile)
Folder == OutputFolder(BaseOf, watermark_config.style)

Ev(what, size_name) == [ev |-> what, size |-> size_name]

\* an open that hands back an image whatever the file holds
OpensAnything(kind) == kind # "missing"

\* Image.open returns an image for this file (a truncated file opens, and
\* fails when its pixels are first read)
Opens(kind) == kind \notin {"missing", "undecodable"}

\* what can stand in the way of making the output folder: nothing, a regular
\* file of that name, or a working directory that cannot be written
MkDirObstacles == {"none", "file_in_the_way", "read_only"}

\* a create_images that leaves the folder to be made at the first save
MkDirPutOff ==
    /\ pc = "mkdir"
    /\ pc' = "open"
    /\ UNCHANGED <<envVars, cfgVars, idx, fsVars, heap, eng, tile, log>>

\* os.makedirs(output_folder) without exist_ok: raises also when the folder
\* exists
MkDirNotExistOk ==
    /\ pc = "mkdir"
    /\ \E obstacle \in MkDirObstacles :
          IF Folder \notin dirs /\ obstacle = "none"
          THEN /\ dirs' = dirs \cup {Folder}
               /\ pc' = "open"
          ELSE /\ dirs' = dirs
               /\ pc' = "crashed"
    /\ UNCHANGED <<envVars, cfgVars, idx, files, heap, eng, tile, log>>

\* os.makedirs(output_folder, exist_ok=True).  The folder is one name in the
\* working directory.  A folder that is already there is accepted; otherwise
\* it is made, unless something stands in the way: then makedirs raises, and
\* as the call is before the try block of create_images the exception leaves
\* create_images and ends the program ("crashed"), with no folder made, the
\* source not opened and nothing written.
MkDir ==
    /\ pc = "mkdir"
    /\ \E obstacle \in MkDirObstacles :
          IF Folder \in dirs \/ obstacle = "none"
          THEN /\ dirs' = dirs \cup {Folder}
               /\ pc' = "open"
          ELSE /\ dirs' = dirs
               /\ pc' = "crashed"
    /\ UNCHANGED <<envVars, cfgVars, idx, files, heap, eng, tile, log>>

\* "with Image.open(input_image_path) as img" and the conversion to RGB.
\* What the file decodes to, and how text measures with the fonts load_font
\* finds, are the environment's: they are met here.  A later run of the same
\* file decodes it the same way; the fonts are looked up again by every run.
Open ==
    /\ pc = "open"
    /\ \E kind \in (IF srcKind = "exists" THEN DecodeKinds ELSE {srcKind}),
          g \in (IF glyph = NoGlyph THEN Glyphs ELSE {glyph}) :
          /\ srcKind' = kind
          /\ glyph' = g
          /\ IF ~Opens(kind) THEN
                 /\ pc' = "failed"
                 /\ log' = Append(log, Ev("open_failed", ""))
                 /\ UNCHANGED <<heap, idx>>
             ELSE
                 LET mode == IF kind \in {"RGB", "RGBA", "L"} THEN kind ELSE "RGB"
                     img == Img(mode, 3000, 2000,
                                <<Op("decode", 0, 0, 3000, 2000, 0, mode, <<>>)>>)
                 IN  /\ heap' = ("img" :> IF mode # "RGB" THEN Convert(img, "RGB")
                                          ELSE img)
                     /\ idx' = 1
                     /\ pc' = "loop"
                     /\ log' = Append(log, Ev("open", ""))
    /\ UNCHANGED <<argv, prev, font, pdf, cfgVars, fsVars, eng, tile>>

\* the for loop is exhausted: the success messages
LoopDone ==
    /\ pc = "loop"
    /\ idx > Len(print_sizes)
    /\ pc' = "done"
    /\ UNCHANGED <<envVars, cfgVars, idx, fsVars, heap, eng, tile, log>>

\* "resized = img.resize((width, height), LANCZOS)" and the call of the
\* watermark function; resize raises on a truncated file, or when the
\* environment fails it (memory)
ResizeStep ==
    /\ pc = "loop"
    /\ idx <= Len(print_sizes)
    /\ \E fails \in BOOLEAN :
          LET size_name == print_sizes[idx]
              wh == SizeOf(size_name)
              h1 == ("resized" :> Resize(heap["img"], wh[1], wh[2])) @@ heap
          IN  IF fails \/ srcKind = "truncated" THEN
                  /\ pc' = "failed"
                  /\ log' = Append(log, Ev("resize_failed", size_name))
                  /\ UNCHANGED <<heap, eng>>
              ELSE
                  /\ heap' = h1
                  /\ eng' = EngCall(watermark_config, h1, "resized")
                  /\ log' = Append(log, Ev("resize", size_name))
                  /\ pc' = "render"
    /\ UNCHANGED <<envVars, cfgVars, idx, fsVars, tile>>

\* a handler inside the loop: the failed size is skipped, the loop goes on
RenderFailedSkipsSize ==
    /\ pc = "render"
    /\ eng.pc = "raised"
    /\ pc' = "loop"
    /\ idx' = idx + 1
    /\ eng' = EngIdle
    /\ heap' = [o \in {"img"} |-> heap[o]]
    /\ log' = Append(log, Ev("watermark_failed", print_sizes[idx]))
    /\ UNCHANGED <<envVars, cfgVars, fsVars, tile>>

\* the watermark function raised: "except Exception as e"
RenderFailed ==
    /\ pc = "render"
    /\ eng.pc = "raised"
    /\ pc' = "failed"
    /\ log' = Append(log, Ev("watermark_failed", print_sizes[idx]))
    /\ UNCHANGED <<envVars, cfgVars, idx, fsVars, heap, eng, tile>>

\* what final_image.save(filepath, 'JPEG', quality=95, dpi=(300, 300)) writes:
\* the encoding of this image's pixels with the format, the quality and the
\* resolution the call names; the call passes nothing else (no comment, no
\* EXIF block, no time)
Jpeg(im) ==
    [im EXCEPT !.px = Append(im.px, Op("save", 0, 0, 300, 300, 95, "JPEG", <<>>))]

\* a loop that keeps the rendered image for later and goes on to the next
\* size without writing it
SaveDeferred ==
    /\ pc = "render"
    /\ eng.pc = "returned"
    /\ idx' = idx + 1
    /\ heap' = [o \in {"img"} |-> heap[o]]
    /\ eng' = EngIdle
    /\ pc' = "loop"
    /\ UNCHANGED <<envVars, cfgVars, fsVars, tile, log>>

\* "final_image.save(filepath, 'JPEG', quality=95, dpi=(300, 300))" and the
\* next pass of the loop; a save that fails may leave a partial file
Save ==
    /\ pc = "render"
    /\ eng.pc = "returned"
    /\ \E outcome \in {"saved", "failed", "failed_partial"} :
          LET size_name == print_sizes[idx]
              filepath == FilePath(Folder, FileName(BaseOf, size_name,
                                                    watermark_config.style))
          IN  IF outcome = "saved" THEN
                  /\ files' = (filepath :> Jpeg(heap[eng.result])) @@ files
                  /\ log' = Append(log, Ev("save", size_name))
                  /\ idx' = idx + 1
                  /\ heap' = [o \in {"img"} |-> heap[o]]
                  /\ eng' = EngIdle
                  /\ pc' = "loop"
              ELSE
                  /\ files' = IF outcome = "failed_partial"
                              THEN (filepath :> PartialFile) @@ files ELSE files
                  /\ log' = Append(log, Ev("save_failed", size_name))
                  /\ pc' = "failed"
                  /\ UNCHANGED <<idx, heap, eng>>
    /\ UNCHANGED <<envVars, cfgVars, dirs, tile>>

----------------------------------------------------------------------------
(* The program *)

Init ==
    /\ pc = "main"
    /\ argv \in ArgvSet
    /\ srcKind \in {"missing", "exists"}
    /\ glyph = NoGlyph
    /\ interactive = FALSE
    /\ size_options = None
    /\ watermark_config = Unset
    /\ print_sizes = <<>>
    /\ pr = PrIdle
    /\ idx = 0
    /\ dirs = {}
    /\ files = NoFiles
    /\ heap = EmptyHeap
    /\ eng = EngIdle
    /\ tile = TileIdle
    /\ prev = NoRun
    /\ font = FontIdle
    /\ pdf = PdfIdle
    /\ log = <<>>

Next ==
    \/ Main \/ MainSingle
    \/ PromptSizeSelection \/ PromptCustomSelection \/ PromptSingleSize
    \/ PromptWatermarkOptions \/ PromptWatermarkText \/ PromptCenterOpacity
    \/ PromptRibbonOpacity \/ PromptRibbonCount \/ PromptRibbonAngle
    \/ MkDir \/ Open \/ LoopDone \/ ResizeStep \/ RenderFailed \/ Save
    \/ NoWatermark \/ CenterBegin \/ CenterShadow \/ CenterText
    \/ RibbonBegin \/ RibbonTile \/ Composite

Spec == Init /\ [][Next]_vars

----------------------------------------------------------------------------
(* The watermark functions on their own: add_center_watermark,              *)
(* add_ribbon_watermarks and the no-watermark branch, called on an image of *)
(* any mode and size with any configuration.                                *)

EngMaxW == 300
EngMaxH == 400
EngMaxRibbons == 10

EngWidths == {1, 41, EngMaxW}
EngHeights == {1, 50, 79, 80, 81, 167, EngMaxH}
EngAngles == {-45, -7, 0, 30, 45}
EngTexts == {<<>>, W("SAMPLE")}

EngConfigs ==
    {[style |-> "none"]}
    \cup {[style |-> "center", text |-> t, opacity |-> o] :
             t \in EngTexts, o \in {50, 255}}
    \cup {[style |-> "ribbon", text |-> t, opacity |-> 120, ribbon_count |-> k,
           angle |-> a] : t \in EngTexts, k \in 1..EngMaxRibbons, a \in EngAngles}

InitEngine ==
    /\ pc = "call"
    /\ argv = <<Prog>>
    /\ srcKind = "exists"
    /\ glyph \in Glyphs
    /\ interactive = FALSE
    /\ size_options = None
    /\ watermark_config \in EngConfigs
    /\ print_sizes = <<>>
    /\ pr = PrIdle
    /\ idx = 0
    /\ dirs = {}
    /\ files = NoFiles
    /\ \E mode \in {"RGB", "RGBA"}, w \in EngWidths, h \in EngHeights :
          heap = ("in" :> Img(mode, w, h, <<Op("decode", 0, 0, w, h, 0, mode, <<>>)>>))
    /\ eng = EngCall(watermark_config, heap, "in")
    /\ tile = TileIdle
    /\ prev = NoRun
    /\ font = FontIdle
    /\ pdf = PdfIdle
    /\ log = <<>>

SpecEngine == InitEngine /\ [][Engine]_vars

----------------------------------------------------------------------------
(* create_ribbon_watermark on its own, one pass of its loop at a time *)

TileMaxWidth == 200

TileAngles == {-45, 0, 12, 45}
TileFontSizes == {20, 45}

InitTile ==
    /\ pc = "call"
    /\ argv = <<Prog>>
    /\ srcKind = "exists"
    /\ glyph \in Glyphs
    /\ interactive = FALSE
    /\ size_options = None
    /\ watermark_config = Unset
    /\ print_sizes = <<>>
    /\ pr = PrIdle
    /\ idx = 0
    /\ dirs = {}
    /\ files = NoFiles
    /\ heap = EmptyHeap
    /\ eng = EngIdle
    /\ prev = NoRun
    /\ font = FontIdle
    /\ pdf = PdfIdle
    /\ \E iw \in 0..TileMaxWidth, t \in EngTexts, a \in TileAngles, fs \in TileFontSizes :
          tile = [TileIdle EXCEPT !.pc = "measure", !.image_width = iw, !.text = t,
                                  !.angle = a, !.font_size = fs]
    /\ log = <<>>

\* the measurement and the "Calculate repetitions" block
TileMeasure ==
    /\ tile.pc = "measure"
    /\ LET m == MeasureText(glyph, tile.text, tile.font_size)
       IN  tile' = IF m.raises THEN [tile EXCEPT !.pc = "raised"]
                   ELSE [tile EXCEPT !.pc = "loop", !.tw = m.w, !.th = m.h,
                                     !.text_spacing = TextSpacing(m.w),
                                     !.ribbon_width = RibbonWidth(tile.image_width),
                                     !.ribbon_height = RibbonHeight(m.h),
                                     !.w = RibbonWidth(tile.image_width),
                                     !.h = RibbonHeight(m.h),
                                     !.current_x = 0]
    /\ UNCHANGED <<pc, envVars, cfgVars, idx, fsVars, heap, eng, log>>

\* one pass of "while current_x < ribbon_width"
TileDraw ==
    /\ tile.pc = "loop"
    /\ tile.current_x < tile.ribbon_width
    /\ tile' = [tile EXCEPT !.last_x = tile.current_x,
                            !.current_x = @ + tile.text_spacing]
    /\ UNCHANGED <<pc, envVars, cfgVars, idx, fsVars, heap, eng, log>>

\* the loop is left: "if angle != 0: rotate", and the return
TileFinish ==
    /\ tile.pc = "loop"
    /\ ~(tile.current_x < tile.ribbon_width)
    /\ LET size == IF tile.angle # 0
                   THEN RotatedSize(tile.ribbon_width, tile.ribbon_height, tile.angle)
                   ELSE <<tile.ribbon_width, tile.ribbon_height>>
       IN  tile' = [tile EXCEPT !.pc = "returned", !.w = size[1], !.h = size[2]]
    /\ UNCHANGED <<pc, envVars, cfgVars, idx, fsVars, heap, eng, log>>

NextTile == TileMeasure \/ TileDraw \/ TileFinish

SpecTile == InitTile /\ [][NextTile]_vars /\ WF_vars(NextTile)

\* the stepwise tile is the tile the watermark function pastes
TileAgrees ==
    tile.pc = "returned" =>
        LET t == CreateRibbonWatermark(tile.image_width, tile.tw, tile.th,
                                       tile.angle, tile.font_size)
        IN  /\ <<t.w, t.h>> = <<tile.w, tile.h>>
            /\ tile.last_x = IF t.draws = 0 THEN -1
                              ELSE (t.draws - 1) * tile.text_spacing

----------------------------------------------------------------------------
(* load_font on its own, one candidate at a time, on a machine where each   *)
(* candidate file is missing, unloadable or loadable                        *)

FontSizes == {20, 30, 150}

InitFont ==
    /\ pc = "call"
    /\ argv = <<Prog>>
    /\ srcKind = "exists"
    /\ glyph = NoGlyph
    /\ interactive = FALSE
    /\ size_options = None
    /\ watermark_config = Unset
    /\ print_sizes = <<>>
    /\ pr = PrIdle
    /\ idx = 0
    /\ dirs = {}
    /\ files = NoFiles
    /\ heap = EmptyHeap
    /\ eng = EngIdle
    /\ tile = TileIdle
    /\ prev = NoRun
    /\ pdf = PdfIdle
    /\ \E d \in [1..Len(font_paths) -> FontFileStates], fs \in FontSizes :
          font = [FontIdle EXCEPT !.pc = "probe", !.on_disk = d,
                                  !.font_size = fs, !.i = 1]
    /\ log = <<>>

\* "except: continue" with the exception let through
TruetypeRaisedLetThrough(f) == [f EXCEPT !.pc = "raised"]

\* "except: continue": on to the next candidate
TruetypeRaised(f) == [f EXCEPT !.i = @ + 1]

\* one pass of "for font_path in font_paths"
FontProbe ==
    /\ font.pc = "probe"
    /\ font.i <= Len(font_paths)
    /\ LET st == font.on_disk[font.i]
       IN  font' = IF st = "missing" THEN [font EXCEPT !.i = @ + 1]
                   ELSE IF st = "loadable"
                        THEN [font EXCEPT !.pc = "returned",
                                          !.result = TrueType(font_paths[font.i],
                                                              font.font_size)]
                   ELSE TruetypeRaised(font)
    /\ UNCHANGED <<pc, argv, srcKind, glyph, prev, pdf, cfgVars, idx, fsVars,
                   heap, eng, tile, log>>

\* the list is exhausted: "return ImageFont.load_default()"
FontDefault ==
    /\ font.pc = "probe"
    /\ font.i > Len(font_paths)
    /\ font' = [font EXCEPT !.pc = "returned", !.result = DefaultFont]
    /\ UNCHANGED <<pc, argv, srcKind, glyph, prev, pdf, cfgVars, idx, fsVars,
                   heap, eng, tile, log>>

NextFont == FontProbe \/ FontDefault

SpecFont == InitFont /\ [][NextFont]_vars /\ WF_vars(NextFont)

----------------------------------------------------------------------------
(* The PDF merger (pdf_joiner.py): main from the point where the files to   *)
(* merge are selected - generate_output_filename, one pass of its loop at a *)
(* time, then merge_pdfs - in a directory that holds any set of earlier     *)
(* outputs                                                                  *)

PdfMaxN == 10
PdfMaxRuns == 2

\* str(n) for n >= 0, as the f-string formats counter
DigitChar(d) ==
    CASE d = 0 -> "0" [] d = 1 -> "1" [] d = 2 -> "2" [] d = 3 -> "3"
      [] d = 4 -> "4" [] d = 5 -> "5" [] d = 6 -> "6" [] d = 7 -> "7"
      [] d = 8 -> "8" [] d = 9 -> "9"

RECURSIVE PyStr(_)
PyStr(n) == IF n < 10 THEN DigitChar(n) ELSE PyStr(n \div 10) \o DigitChar(n % 10)

\* os.path.join(directory, name), for a directory given without a final "/"
PdfJoin(directory, name) == directory \o "/" \o name

\* base_name
MergedBaseName == "merged_pdfs.pdf"

\* f"{name_without_ext}.pdf" with name_without_ext = f"merged_pdfs_{counter}"
NumberedName(counter) == "merged_pdfs_" \o PyStr(counter) \o ".pdf"

\* an existence test that finds nothing
PathNeverExists(dir, path) == FALSE

\* os.path.exists(output_path), in a directory holding the paths dir
PathExists(dir, path) == path \in dir

PdfDirectory == "docs"

\* the names a directory may hold before the merger runs: earlier outputs,
\* and names that only look like them
PdfNames ==
    {MergedBaseName, "merged_pdfs_01.pdf"}
    \cup {NumberedName(n) : n \in 1..PdfMaxN}

InitPdf ==
    /\ pc = "call"
    /\ argv = <<Prog>>
    /\ srcKind = "exists"
    /\ glyph = NoGlyph
    /\ interactive = FALSE
    /\ size_options = None
    /\ watermark_config = Unset
    /\ print_sizes = <<>>
    /\ pr = PrIdle
    /\ idx = 0
    /\ dirs = {}
    /\ files = NoFiles
    /\ heap = EmptyHeap
    /\ eng = EngIdle
    /\ tile = TileIdle
    /\ prev = NoRun
    /\ font = FontIdle
    /\ \E names \in SUBSET PdfNames :
          pdf = [PdfIdle EXCEPT
                    !.pc = "generate", !.directory = PdfDirectory, !.run = 1,
                    !.dir = {PdfJoin(PdfDirectory, n) : n \in names \cup {"a.pdf"}}]
    /\ log = <<>>

\* generate_output_filename up to its loop
GenerateBegin ==
    /\ pdf.pc = "generate"
    /\ pdf' = [pdf EXCEPT !.pc = "while",
                          !.output_path = PdfJoin(pdf.directory, MergedBaseName),
                          !.counter = 1]
    /\ UNCHANGED <<pc, argv, srcKind, glyph, prev, font, cfgVars, idx, fsVars,
                   heap, eng, tile, log>>

\* one pass of "while os.path.exists(output_path)"
GenerateNext ==
    /\ pdf.pc = "while"
    /\ PathExists(pdf.dir, pdf.output_path)
    /\ pdf' = [pdf EXCEPT !.output_path =
                              PdfJoin(pdf.directory, NumberedName(pdf.counter)),
                          !.counter = @ + 1]
    /\ UNCHANGED <<pc, argv, srcKind, glyph, prev, font, cfgVars, idx, fsVars,
                   heap, eng, tile, log>>

\* the loop is left: "return output_path"
GenerateReturn ==
    /\ pdf.pc = "while"
    /\ ~PathExists(pdf.dir, pdf.output_path)
    /\ pdf' = [pdf EXCEPT !.pc = "merge"]
    /\ UNCHANGED <<pc, argv, srcKind, glyph, prev, font, cfgVars, idx, fsVars,
                   heap, eng, tile, log>>

\* merge_pdfs(selected_files, output_path): merger.write creates or replaces
\* the file at output_path; when an input cannot be read, or the write fails,
\* the exception is caught, with or without a file left at output_path
MergePdfs ==
    /\ pdf.pc = "merge"
    /\ \E outcome \in {"written", "failed", "failed_partial"} :
          pdf' = IF outcome = "failed" THEN [pdf EXCEPT !.pc = "failed"]
                 ELSE [pdf EXCEPT
                          !.pc = IF outcome = "written" THEN "done" ELSE "failed",
                          !.dir = @ \cup {pdf.output_path},
                          !.merged = @ \cup {pdf.output_path},
                          !.overwritten = @ \cup ({pdf.output_path} \cap pdf.dir)]
    /\ UNCHANGED <<pc, argv, srcKind, glyph, prev, font, cfgVars, idx, fsVars,
                   heap, eng, tile, log>>

\* the merger is started again on the same directory after a merge
PdfMainAgain ==
    /\ pdf.pc = "done"
    /\ pdf.run < PdfMaxRuns
    /\ pdf' = [pdf EXCEPT !.pc = "generate", !.run = @ + 1,
                          !.output_path = "", !.counter = 0]
    /\ UNCHANGED <<pc, argv, srcKind, glyph, prev, font, cfgVars, idx, fsVars,
                   heap, eng, tile, log>>

NextPdf ==
    GenerateBegin \/ GenerateNext \/ GenerateReturn \/ MergePdfs \/ PdfMainAgain

SpecPdf == InitPdf /\ [][NextPdf]_vars /\ WF_vars(NextPdf)

----------------------------------------------------------------------------
(* create_images run, and run again with the same arguments on the same     *)
(* machine once the run before is over                                      *)

\* the command lines of the runs that are repeated
RerunArgv ==
    {<<Prog, InputPath>> \o st : st \in StyleArgs}
    \cup {<<Prog, InputPath, W("--ribbon"), W("--ribbons"), <<"7">>>>,
          <<Prog, InputPath, W("--ribbon"), W("--angle"), <<"4", "5">>>>,
          <<Prog, InputPath, W("--center"), W("--text"), <<>>>>}

\* the calls of create_images that are repeated, at the point where sizes and
\* configuration are determined: those main makes for RerunArgv, and the
\* interactive ones with a menu selection and no watermark
RerunCalls ==
    {[argv |-> a, interactive |-> FALSE, size_options |-> SizeOpt("all", <<>>),
      print_sizes |-> AllNames, watermark_config |-> MainWatermarkOptions(a)] :
        a \in RerunArgv}
    \cup {[argv |-> <<Prog, InputPath, W("--interactive")>>, interactive |-> TRUE,
           size_options |-> SizeMenu(line).sel,
           print_sizes |-> SelectSizes(SizeMenu(line).sel),
           watermark_config |-> [style |-> "none"]] : line \in {W("2"), W("3")}}

InitRerun ==
    /\ pc = "mkdir"
    /\ \E c \in RerunCalls :
          /\ argv = c.argv
          /\ interactive = c.interactive
          /\ size_options = c.size_options
          /\ print_sizes = c.print_sizes
          /\ watermark_config = c.watermark_config
    /\ srcKind = "exists"
    /\ glyph = NoGlyph
    /\ pr = PrIdle
    /\ idx = 0
    /\ dirs = {}
    /\ files = NoFiles
    /\ heap = EmptyHeap
    /\ eng = EngIdle
    /\ tile = TileIdle
    /\ prev = NoRun
    /\ font = FontIdle
    /\ pdf = PdfIdle
    /\ log = <<>>

\* the run is over and the program is started again with the same command
\* line and the same answers: create_images is entered again with the same
\* source, sizes and configuration, the output of the run before on disk.
\* The fonts are looked up anew (load_font tests its paths at every call), so
\* the run may find text to measure as before or otherwise.
Rerun ==
    /\ pc = "done"
    /\ prev.runs = 0
    /\ prev' = [runs |-> prev.runs + 1, files |-> files, glyph |-> glyph]
    /\ glyph' = NoGlyph
    /\ pc' = "mkdir"
    /\ idx' = 0
    /\ heap' = EmptyHeap
    /\ eng' = EngIdle
    /\ log' = <<>>
    /\ UNCHANGED <<argv, srcKind, font, pdf, cfgVars, fsVars, tile>>

NextRerun ==
    \/ MkDir \/ Open \/ LoopDone \/ ResizeStep \/ RenderFailed \/ Save
    \/ NoWatermark \/ CenterBegin \/ CenterShadow \/ CenterText
    \/ RibbonBegin \/ RibbonTile \/ Composite
    \/ Rerun

SpecRerun == InitRerun /\ [][NextRerun]_vars

----------------------------------------------------------------------------
(* Properties of the program (checked under Spec) *)

\* the path create_images writes size_name to under the present configuration
PathOf(size_name) ==
    FilePath(Folder, FileName(BaseOf, size_name, watermark_config.style))

SavedPaths == DOMAIN files

FailEvents == {"open_failed", "resize_failed", "watermark_failed", "save_failed"}

\* C1: the image saved for a size label has exactly the width and height the
\* size table gives for that label, whatever the watermark style, ribbon
\* count and angle.
C1_SavedSizeIsTableSize ==
    watermark_config # Unset =>
        \A i \in 1..Len(all_print_sizes) :
            LET e == all_print_sizes[i]
            IN  (PathOf(e.name) \in SavedPaths /\ files[PathOf(e.name)] # PartialFile)
                    => /\ files[PathOf(e.name)].w = e.w
                       /\ files[PathOf(e.name)].h = e.h

C1_Witness ==
    /\ pc = "done"
    /\ watermark_config.style = "ribbon"
    /\ watermark_config.angle = 45
    /\ watermark_config.ribbon_count = 3
    /\ Cardinality(SavedPaths) = Len(all_print_sizes)
    /\ \A p \in SavedPaths : files[p] # PartialFile

\* C2: a non-interactive run with "--sizes popular" (small, large) writes
\* files for exactly the listed sizes and for no other size.
C2_SizesFlagSelectsSubset ==
    (pc = "done" /\ ~interactive /\ size_options.type \in {"popular", "small", "large"})
        => SavedPaths = {PathOf(size_options.sizes[i]) : i \in 1..Len(size_options.sizes)}

\* C3: a run that completes writes exactly one file per selected size, named
\* {base}_{size}_300dpi_clean.jpg (style none) or
\* {base}_{size}_300dpi_watermarked.jpg, all in the one directory
\* {base}_clean_prints, {base}_center_watermarked or {base}_ribbon_watermarked.
C3_OneFilePerSizeInOneFolder ==
    pc = "done" =>
        LET style == watermark_config.style
            dir == BaseOf \o (IF style = "none" THEN "_clean_prints"
                              ELSE IF style = "center" THEN "_center_watermarked"
                              ELSE "_ribbon_watermarked")
            kind == IF style = "none" THEN "clean" ELSE "watermarked"
            name(sz) == BaseOf \o "_" \o sz \o "_300dpi_" \o kind \o ".jpg"
        IN  /\ SavedPaths = {dir \o "/" \o name(print_sizes[i]) : i \in 1..Len(print_sizes)}
            /\ Cardinality(SavedPaths) = Len(print_sizes)
            /\ dirs = {dir}
            /\ \A p \in SavedPaths : files[p] # PartialFile

C3_Witness ==
    /\ pc = "done"
    /\ interactive
    /\ watermark_config.style = "center"
    /\ print_sizes = <<"20x24", "24x36", "5x7">>

\* C4: a failure of resize, watermark or save for one size ends the run -
\* nothing is rendered or written after it - and the files written for the
\* earlier sizes stay as they were written.
C4_FailureStopsRun ==
    /\ \A i \in 1..Len(log) :
           log[i].ev \in FailEvents => (i = Len(log) /\ pc = "failed")
    /\ \A i \in 1..Len(log) :
           log[i].ev = "save" =>
               /\ PathOf(log[i].size) \in SavedPaths
               /\ files[PathOf(log[i].size)] # PartialFile
               /\ <<files[PathOf(log[i].size)].w, files[PathOf(log[i].size)].h>>
                      = SizeOf(log[i].size)

C4_Witness ==
    /\ pc = "failed"
    /\ log[Len(log)].ev = "save_failed"
    /\ idx = 3
    /\ Cardinality({p \in SavedPaths : files[p] # PartialFile}) = 2

\* C5: when the source file is missing or cannot be decoded, the run aborts
\* before any size is rendered: nothing is resized or watermarked and no
\* output file is written.
C5_BadSourceRendersNothing ==
    srcKind \in {"missing", "undecodable", "truncated"} =>
        /\ SavedPaths = {}
        /\ \A i \in 1..Len(log) : log[i].ev \notin {"resize", "save"}
        /\ eng = EngIdle
        /\ "resized" \notin DOMAIN heap

C5_Witness ==
    /\ pc = "failed"
    /\ srcKind = "undecodable"
    /\ log = <<Ev("open_failed", "")>>

\* C10: every watermark configuration create_images renders with has opacity
\* in 50..255 and, for the ribbon style, ribbon_count in 3..10 and angle in
\* -45..45, whatever was passed on the command line or typed (the
\* configuration of style none carries no opacity).
C10_ConfigInRange ==
    /\ watermark_config # Unset =>
           watermark_config.style \in {"none", "center", "ribbon"}
    /\ watermark_config.style \in {"center", "ribbon"} =>
           watermark_config.opacity \in 50..255
    /\ watermark_config.style = "ribbon" =>
           /\ watermark_config.ribbon_count \in 3..10
           /\ watermark_config.angle \in -45..45

C10_Witness ==
    /\ pc = "render"
    /\ In(<<"9", "9", "9">>, argv) /\ In(<<"0">>, argv) /\ In(<<"9", "0">>, argv)
    /\ watermark_config = [style |-> "ribbon", text |-> DefaultText, opacity |-> 255,
                           ribbon_count |-> 3, angle |-> 45]

----------------------------------------------------------------------------
(* Properties of create_ribbon_watermark (checked under SpecTile) *)

\* C6, as claimed: the returned tile is at least image_width x 1.5 wide.
C6_ReturnedWidthAtLeastOneAndAHalf ==
    tile.pc = "returned" => 2 * tile.w >= 3 * tile.image_width

\* what holds of the loop and of the tile at every point of the call
TileLoopFacts ==
    tile.pc \in {"loop", "returned"} =>
        /\ tile.tw >= 0
        /\ tile.text_spacing = tile.tw + 60
        /\ tile.text_spacing > 0
        /\ 2 * tile.ribbon_width <= 3 * tile.image_width
        /\ 3 * tile.image_width <= 2 * tile.ribbon_width + 1
        /\ tile.pc = "returned" =>
               /\ tile.current_x >= tile.ribbon_width
               /\ tile.angle = 0 => tile.w = tile.ribbon_width
               /\ tile.w >= tile.image_width

\* C6, amended: for every image width >= 0 and every measured text width >= 0
\* (0 for the empty string) the tiling loop terminates; the advance per pass
\* is text_width + 60 > 0; the tile the loop draws on is
\* floor(image_width x 1.5) wide, which is the returned width when angle = 0;
\* a rotated tile is returned with another width, at least image_width.
C6_TilingTerminates ==
    /\ []TileLoopFacts
    /\ (tile.pc = "loop") ~> (tile.pc = "returned")

C6_Witness ==
    /\ tile.pc = "returned"
    /\ tile.tw = 0
    /\ tile.last_x >= 2 * tile.text_spacing
    /\ tile.angle = 45
    /\ 2 * tile.w < 3 * tile.image_width

----------------------------------------------------------------------------
(* Properties of the watermark functions (checked under SpecEngine) *)

Pasted == heap["overlay"].px

\* C7, as claimed: the pasted tile never extends above row 0 or below the
\* image.
C7_TileWithinImage ==
    (eng.style = "ribbon" /\ eng.i >= 1) =>
        /\ 0 <= eng.paste_y
        /\ eng.paste_y + eng.tile_h <= heap[eng.image].h

\* C7, amended: the paste position is never negative; when the tile is no
\* taller than the image it lies within the image (0 <= paste_y and
\* paste_y + tileHeight <= imageHeight); a tile taller than the image is
\* pasted at row 0 and extends below the image.
C7_ClampedWhenTileFits ==
    (eng.style = "ribbon" /\ eng.i >= 1) =>
        LET H == heap[eng.image].h
            placed == Pasted[eng.i]
        IN  /\ placed.y = eng.paste_y /\ placed.h = eng.tile_h
            /\ 0 <= placed.y
            /\ placed.h <= H => placed.y + placed.h <= H
            /\ placed.h > H => placed.y = 0

C7_Witness ==
    /\ eng.style = "ribbon" /\ eng.i >= 1
    /\ eng.angle = 30
    /\ eng.tile_h <= heap[eng.image].h
    /\ eng.raw_y > heap[eng.image].h - eng.tile_h
    /\ eng.paste_y = heap[eng.image].h - eng.tile_h

\* C8: with ribbon count k, exactly k tiles are built and pasted, one per
\* index 0..k-1 in increasing order, each at x = 0 and, before clamping, at
\* y = verticalSpacing * (i + 1) - tileHeight div 2, where
\* verticalSpacing = imageHeight div (k + 1).
C8_OneTilePerIndex ==
    (eng.style = "ribbon" /\ eng.pc \in {"ribbon_loop", "returned"}) =>
        LET k == eng.ribbon_count
            vs == heap[eng.image].h \div (k + 1)
        IN  /\ Len(Pasted) = eng.i
            /\ eng.i <= k
            /\ eng.pc = "returned" => Len(Pasted) = k
            /\ \A j \in 1..Len(Pasted) :
                   /\ Pasted[j].op = "paste"
                   /\ Pasted[j].n = j - 1
                   /\ Pasted[j].x = 0
            /\ eng.i >= 1 =>
                   eng.raw_y = vs * ((eng.i - 1) + 1) - Pasted[eng.i].h \div 2

C8_Witness ==
    /\ eng.style = "ribbon" /\ eng.pc = "returned"
    /\ eng.ribbon_count = 7 /\ eng.angle = -7
    /\ Len(Pasted) = 7
    /\ eng.raw_y # eng.paste_y

\* C9: a watermark function never changes the image it is given: during and
\* after add_center_watermark, add_ribbon_watermarks and the no-watermark
\* branch the argument has the mode, size and pixels it had at the call,
\* for an RGB and for an RGBA argument alike.
C9_InputNotMutated ==
    eng.pc # "idle" => heap[eng.input] = eng.before

C9_Witness ==
    /\ eng.pc = "returned"
    /\ eng.style = "center"
    /\ heap[eng.input].mode = "RGBA"
    /\ eng.image = eng.input
    /\ Len(Pasted) = 2
    /\ eng.result # eng.input

----------------------------------------------------------------------------
(* Properties of a repeated run (checked under SpecRerun) *)

\* the sizes the run has saved so far, in order
RECURSIVE SavedSizes(_)
SavedSizes(l) ==
    IF l = <<>> THEN <<>>
    ELSE IF Head(l).ev = "save" THEN <<Head(l).size>> \o SavedSizes(Tail(l))
    ELSE SavedSizes(Tail(l))

\* the second run is over and has found text to measure as the first did,
\* or draws no text
SameRendering ==
    watermark_config.style = "none" \/ glyph = prev.glyph

\* C11, as claimed: when the second run of create_images with the same
\* source, sizes and configuration is over, the files have the same contents
\* as after the first run.
C11_SecondRunSameContents ==
    (prev.runs = 1 /\ pc = "done") => files = prev.files

\* C11, amended: a second run of create_images with the same source, sizes
\* and configuration is not stopped by the directory that already exists
\* (makedirs does not raise; the run fails only where a first run can: open,
\* resize, watermark, save); at no point of it is there a file name the first
\* run did not write; when it is over it has saved every selected size again
\* over the earlier file; and the files then are, name by name and content by
\* content, those the first run left whenever no watermark is drawn or the
\* fonts found give the text the measure they gave in the first run.
C11_SecondRunSameFiles ==
    prev.runs = 1 =>
        /\ pc # "crashed"
        /\ Folder \in dirs
        /\ DOMAIN files = DOMAIN prev.files
        /\ pc = "failed" => log # <<>> /\ log[Len(log)].ev \in FailEvents
        /\ pc = "done" =>
               /\ SavedSizes(log) = print_sizes
               /\ DOMAIN files = {PathOf(print_sizes[i]) : i \in 1..Len(print_sizes)}
               /\ SameRendering => files = prev.files

C11_Witness ==
    /\ prev.runs = 1
    /\ pc = "done"
    /\ watermark_config.style = "ribbon"
    /\ watermark_config.angle = 45
    /\ glyph = prev.glyph
    /\ Cardinality(DOMAIN files) = 9
    /\ SavedSizes(log) = AllNames
    /\ \A p \in DOMAIN files : files[p].px[Len(files[p].px)].n = 95
    /\ files = prev.files

----------------------------------------------------------------------------
(* Properties of text measurement and of fonts (checked under SpecEngine) *)

\* C12, as claimed: the text measurement of add_center_watermark and of
\* create_ribbon_watermark never raises; whatever textbbox and textsize do
\* in the environment, neither watermark function ends with an exception.
C12_MeasurementNeverRaises == eng.pc # "raised"

----------------------------------------------------------------------------
(* Properties of load_font (checked under SpecFont) *)

\* the candidates that exist and load on this machine
Loadable == {j \in 1..Len(font_paths) : font.on_disk[j] = "loadable"}

\* what holds at every point of a call of load_font
LoadFontFacts ==
    /\ font.pc \in {"probe", "returned"}
    /\ font.pc = "probe" =>
           /\ font.i \in 1..(Len(font_paths) + 1)
           /\ \A j \in Loadable : j >= font.i
    /\ font.pc = "returned" =>
           IF Loadable = {} THEN font.result = DefaultFont
           ELSE \E j \in Loadable :
                   /\ \A k \in Loadable : j <= k
                   /\ font.result = TrueType(font_paths[j], font.font_size)

\* C13: load_font never fails, whatever candidates are missing, unloadable
\* or loadable: it raises nothing and returns; it probes the candidates in
\* the listed order and returns the first that exists and loads at the size
\* asked for, going past one that exists and does not load; it returns the
\* built-in default font when none does.
C13_LoadFontNeverFails ==
    /\ []LoadFontFacts
    /\ (font.pc = "probe") ~> (font.pc = "returned")

C13_Witness ==
    /\ font.pc = "returned"
    /\ font.on_disk[1] = "missing"
    /\ font.on_disk[2] = "unloadable"
    /\ font.on_disk[3] = "unloadable"
    /\ font.on_disk[4] = "loadable"
    /\ font.on_disk[6] = "loadable"
    /\ font.result = TrueType("/Library/Fonts/Arial.ttf", 150)

\* a machine with no usable candidate gets the default font
C13_DefaultReached ==
    /\ font.pc = "returned"
    /\ font.on_disk[1] = "unloadable"
    /\ Loadable = {}
    /\ font.result = DefaultFont

----------------------------------------------------------------------------
(* Properties of the order of a run (checked under Spec) *)

\* the sizes the run has resized so far, in order
RECURSIVE ResizedSizes(_)
ResizedSizes(l) ==
    IF l = <<>> THEN <<>>
    ELSE IF Head(l).ev = "resize" THEN <<Head(l).size>> \o ResizedSizes(Tail(l))
    ELSE ResizedSizes(Tail(l))

IsPrefix(p, q) == Len(p) <= Len(q) /\ p = SubSeq(q, 1, Len(p))

\* C14: the sizes are processed one after another in the order of
\* print_sizes: the sizes resized so far and the sizes saved so far are both
\* prefixes of print_sizes, at most one size is resized and not yet saved
\* (the save of size n precedes the resize of size n+1), and the files
\* written are those of a prefix of print_sizes: the saved sizes, and at
\* most the partial file of the size whose save failed.
C14_OneSizeAfterAnother ==
    LET resized == ResizedSizes(log)
        saved == SavedSizes(log)
        n == Cardinality(DOMAIN files)
    IN  /\ IsPrefix(resized, print_sizes)
        /\ IsPrefix(saved, resized)
        /\ Len(resized) - Len(saved) \in {0, 1}
        /\ n \in {Len(saved), Len(resized)}
        /\ DOMAIN files = {PathOf(print_sizes[i]) : i \in 1..n}
        /\ \A i \in 1..Len(saved) : files[PathOf(saved[i])] # PartialFile

C14_Witness ==
    /\ pc = "render"
    /\ interactive
    /\ size_options.type = "custom"
    /\ Len(print_sizes) >= 3
    /\ print_sizes[1] # AllNames[1]
    /\ SavedSizes(log) = SubSeq(print_sizes, 1, 2)
    /\ ResizedSizes(log) = SubSeq(print_sizes, 1, 3)
    /\ DOMAIN files = {PathOf(print_sizes[1]), PathOf(print_sizes[2])}

----------------------------------------------------------------------------
(* Properties of the overlay (checked under SpecEngine) *)

\* the alpha_composite operations in the pixels of an image
Composites(px) == {j \in 1..Len(px) : px[j].op = "alpha_composite"}

\* C15: the overlay has the size of the image it is made for; it is
\* composited onto the image exactly once, and only when it is complete:
\* nothing is composited while the function runs, and the one composite of
\* the returned image holds, in the ribbon path, the pastes of all
\* ribbon_count tiles in order, and in the center path the shadow text and
\* then the main text.
C15_OverlayCompositedOnce ==
    /\ "overlay" \in DOMAIN heap =>
           <<heap["overlay"].w, heap["overlay"].h>>
               = <<heap[eng.image].w, heap[eng.image].h>>
    /\ eng.pc \notin {"returned"} => eng.composites = 0 /\ "out" \notin DOMAIN heap
    /\ (eng.pc = "returned" /\ eng.style # "none") =>
           LET px == heap[eng.result].px
           IN  /\ eng.composites = 1
               /\ Cardinality(Composites(px)) = 1
               /\ \A j \in Composites(px) :
                      /\ <<px[j].w, px[j].h>> = <<eng.before.w, eng.before.h>>
                      /\ SubSeq(px, 1, j - 1) = heap[eng.image].px
                      /\ px[j].sub = heap["overlay"].px
                      /\ IF eng.style = "ribbon"
                         THEN /\ Len(px[j].sub) = eng.ribbon_count
                              /\ \A i \in 1..Len(px[j].sub) :
                                     px[j].sub[i].op = "paste" /\ px[j].sub[i].n = i - 1
                         ELSE /\ Len(px[j].sub) = 2
                              /\ px[j].sub[1].op = "text" /\ px[j].sub[1].s = "black"
                              /\ px[j].sub[2].op = "text" /\ px[j].sub[2].s = "white"

C15_Witness ==
    /\ eng.pc = "returned"
    /\ eng.style = "ribbon"
    /\ eng.ribbon_count = EngMaxRibbons
    /\ eng.angle = -45
    /\ heap["in"].mode = "RGB"
    /\ Len(heap["overlay"].px) = EngMaxRibbons
    /\ Cardinality(Composites(heap["out"].px)) = 1

----------------------------------------------------------------------------
(* Properties of the PDF merger (checked under SpecPdf) *)

\* what holds of generate_output_filename and of the merge that follows
OutputNameFacts ==
    LET base == PdfJoin(pdf.directory, MergedBaseName)
        numbered(n) == PdfJoin(pdf.directory, NumberedName(n))
    IN  /\ pdf.pc = "while" =>
               /\ pdf.counter >= 1
               /\ pdf.counter > 1 => pdf.output_path = numbered(pdf.counter - 1)
               /\ pdf.counter = 1 => pdf.output_path = base
               /\ pdf.counter > 1 => base \in pdf.dir
               /\ \A n \in 1..(pdf.counter - 2) : numbered(n) \in pdf.dir
        /\ pdf.pc = "merge" =>
               /\ pdf.output_path \notin pdf.dir
               /\ base \notin pdf.dir => pdf.output_path = base
               /\ base \in pdf.dir =>
                      \E n \in 1..(pdf.counter - 1) :
                          /\ pdf.output_path = numbered(n)
                          /\ \A m \in 1..(n - 1) : numbered(m) \in pdf.dir
        /\ pdf.overwritten = {}

\* C16: generate_output_filename never returns the path of a file that
\* exists when it is called: it returns merged_pdfs.pdf when that is free,
\* otherwise merged_pdfs_N.pdf for the smallest N >= 1 that is free; the
\* merge that follows writes no file that was there before; and the search
\* ends for every finite directory.
C16_OutputNameIsFree ==
    /\ []OutputNameFacts
    /\ (pdf.pc = "generate") ~> (pdf.pc = "merge")

C16_Witness ==
    /\ pdf.pc = "done"
    /\ pdf.run = 2
    /\ pdf.output_path = "docs/merged_pdfs_10.pdf"
    /\ pdf.merged = {"docs/merged_pdfs_2.pdf", "docs/merged_pdfs_10.pdf"}
    /\ "docs/merged_pdfs_01.pdf" \in pdf.dir
    /\ pdf.overwritten = {}

----------------------------------------------------------------------------
(* Properties of cancelling and of the output directory (checked under Spec) *)

\* C17: in interactive mode, after a keyboard interrupt at the size prompt
\* (menu, custom selection, single size) or at a watermark prompt (style,
\* text, opacity, ribbon count, angle) create_images has returned with no
\* directory made, the source not opened and no file written; and
\* create_images is past its prompts only with the sizes and the
\* configuration that the prompts returned.
C17_CancelLeavesNothing ==
    /\ pc = "cancelled" =>
           /\ interactive
           /\ dirs = {}
           /\ files = NoFiles
           /\ heap = EmptyHeap
           /\ log = <<>>
           /\ idx = 0
    /\ pc \in {"mkdir", "crashed", "open", "loop", "render", "done", "failed"} =>
           /\ watermark_config # Unset
           /\ print_sizes # <<>>

C17_Witness ==
    /\ pc = "cancelled"
    /\ print_sizes = <<"20x24", "24x36", "5x7">>
    /\ size_options.type = "custom"
    /\ pr.text = W("SAMPLE")
    /\ pr.opacity = 255
    /\ pr.ribbon_count = 3
    /\ dirs = {}

\* what a step of the program leaves on disk: every directory and every
\* file that was there is still there
NothingRemoved ==
    /\ dirs \subseteq dirs'
    /\ DOMAIN files \subseteq DOMAIN files'

\* the output directory exists from the moment the source is about to be
\* opened; a run that could not make it has ended before the open, with
\* nothing opened, rendered or written
FolderMadeFirst ==
    /\ pc \in {"open", "loop", "render", "done", "failed"} => dirs = {Folder}
    /\ log # <<>> => Folder \in dirs
    /\ heap # EmptyHeap => Folder \in dirs
    /\ pc = "crashed" => dirs = {} /\ heap = EmptyHeap /\ log = <<>> /\ files = NoFiles

\* C18: create_images makes the output directory before it opens the
\* source, so the directory exists, possibly empty, after a run that fails
\* at the open or at the first size (a run that makedirs itself ends is
\* neither: it never reaches the open); and no step of a run removes a
\* directory or a file.
C18_FolderBeforeOpen ==
    /\ []FolderMadeFirst
    /\ [][NothingRemoved]_vars

C18_Witness ==
    /\ pc = "failed"
    /\ srcKind = "truncated"
    /\ Len(log) = 2
    /\ log[2] = Ev("resize_failed", "5x7")
    /\ dirs = {Folder}
    /\ files = NoFiles
    /\ watermark_config.style = "center"

====
